---- MODULE Spec2Model ----
(***************************************************************************)
(* Model of models/toc.go of peach: the per-language table of contents     *)
(* (Node, Toc), document lookup (GetDoc), search (Search) and the reload   *)
(* orchestrator (ReloadDocs) that swaps the process-wide registry Tocs.    *)
(*                                                                         *)
(* Strings and byte slices are sequences of one-character strings; a Go    *)
(* slice expression s[lo:hi] is Slice(s, lo, hi) with 0-based offsets.     *)
(***************************************************************************)
EXTENDS Integers, Sequences, FiniteSets, TLC

(***************************************************************************)
(* Byte/string helpers (package bytes / strings of the Go library).        *)
(***************************************************************************)
IsSpace(c) == c \in {" ", "\n"}

Slice(s, lo, hi) == SubSeq(s, lo + 1, hi)

RECURSIVE TrimLeft(_)
TrimLeft(s) ==
    IF s = <<>> THEN s
    ELSE IF IsSpace(Head(s)) THEN TrimLeft(Tail(s)) ELSE s

RECURSIVE TrimRight(_)
TrimRight(s) ==
    IF s = <<>> THEN s
    ELSE IF IsSpace(s[Len(s)]) THEN TrimRight(SubSeq(s, 1, Len(s) - 1)) ELSE s

TrimSpace(s) == TrimRight(TrimLeft(s))

\* sub occurs in s at 0-based offset i
OccursAt(s, sub, i) ==
    /\ i + Len(sub) <= Len(s)
    /\ \A k \in 1..Len(sub) : s[i + k] = sub[k]

\* strings.Index / bytes.Index: offset of the first occurrence, or -1
Index(s, sub) ==
    LET hits == {i \in 0..(Len(s) - Len(sub)) : OccursAt(s, sub, i)}
    IN  IF hits = {} THEN -1
        ELSE CHOOSE i \in hits : \A j \in hits : i <= j

\* strings.Split(s, sep) for a one-character separator
RECURSIVE Split(_, _)
Split(s, sep) ==
    LET i == Index(s, <<sep>>)
    IN  IF i = -1 THEN <<s>>
        ELSE <<Slice(s, 0, i)>> \o Split(Slice(s, i + 1, Len(s)), sep)

\* strings.SplitN(s, sep, 2)
SplitN2(s, sep) ==
    LET i == Index(s, <<sep>>)
    IN  IF i = -1 THEN <<s>>
        ELSE <<Slice(s, 0, i), Slice(s, i + 1, Len(s))>>

LowerOf(c) ==
    CASE c = "X" -> "x"
      [] c = "Y" -> "y"
      [] c = "T" -> "t"
      [] c = "A" -> "a"
      [] OTHER -> c

\* strings.ToLower / bytes.ToLower
ToLower(s) == [k \in 1..Len(s) |-> LowerOf(s[k])]

\* strings.TrimPrefix(s, "/")
TrimPrefixSlash(s) ==
    IF Len(s) >= 1 /\ s[1] = "/" THEN Tail(s) ELSE s

RECURSIVE JoinNonEmpty(_)
JoinNonEmpty(parts) ==
    IF parts = <<>> THEN <<>>
    ELSE IF Len(parts) = 1 THEN parts[1]
    ELSE parts[1] \o <<"/">> \o JoinNonEmpty(Tail(parts))

\* path.Join: empty elements are ignored, the rest joined by "/" (the names of
\* the model hold no "." or "/" so path.Clean changes nothing more)
PathJoin(a, b) == JoinNonEmpty(SelectSeq(<<a, b>>, LAMBDA e : e # <<>>))

(***************************************************************************)
(* The renderers are external libraries: markdown wraps the trimmed body   *)
(* in a paragraph, the text renderer drops the emphasis markup.            *)
(***************************************************************************)
markdown(data) == <<"<p>">> \o TrimSpace(data) \o <<"</p>">>

textRender(data) == SelectSeq(TrimSpace(data), LAMBDA c : c # "*")

(***************************************************************************)
(* Front matter: parseNodeName                                             *)
(***************************************************************************)
Marker == <<"-", "-", "-">>

NameKey == <<"n", "a", "m", "e">>

RECURSIVE titleOf(_, _)
titleOf(title, opts) ==
    IF opts = <<>> THEN title
    ELSE LET infos == SplitN2(Head(opts), ":")
         IN  IF Len(infos) # 2 THEN titleOf(title, Tail(opts))
             ELSE IF TrimSpace(infos[1]) = NameKey
                  THEN titleOf(TrimSpace(infos[2]), Tail(opts))
                  ELSE titleOf(title, Tail(opts))

\* offset of the closing marker as the code computes it: bytes.Index(...) + 3
closingIdx(data) == Index(Slice(data, 3, Len(data)), Marker) + 3

\* [panic, title, body]: panic is the run-time panic of the slice expression
\* data[3:endIdx] when endIdx < 3
parseNodeName(name, raw) ==
    LET data == TrimSpace(raw)
    IN  IF Len(data) < 3 \/ Slice(data, 0, 3) # Marker
        THEN [panic |-> FALSE, title |-> name, body |-> <<>>]
        ELSE LET endIdx == closingIdx(data)
             IN  IF endIdx = -1
                 THEN [panic |-> FALSE, title |-> name, body |-> <<>>]
                 ELSE IF endIdx < 3
                 THEN [panic |-> TRUE, title |-> name, body |-> <<>>]
                 ELSE [panic |-> FALSE,
                       title |-> titleOf(name,
                                   Split(TrimSpace(Slice(data, 3, endIdx)), "\n")),
                       body  |-> Slice(data, endIdx + 3, Len(data))]

(***************************************************************************)
(* Node                                                                    *)
(***************************************************************************)
\* the file does not exist
Missing == <<"ENOENT">>

NewNode(name, fileName, children) ==
    [Name |-> name, Title |-> <<>>, content |-> <<>>, Text |-> <<>>,
     Plain |-> FALSE, FileName |-> fileName, Nodes |-> children]

\* Node.ReloadContent against the files in fsys: [err, panic, node]
ReloadContent(n, fsys) ==
    IF fsys[n.FileName] = Missing
    THEN [err |-> TRUE, panic |-> FALSE, node |-> n]
    ELSE LET p     == parseNodeName(n.Name, fsys[n.FileName])
             plain == Len(TrimSpace(p.body)) = 0
         IN  IF p.panic
             THEN [err |-> FALSE, panic |-> TRUE, node |-> n]
             ELSE [err |-> FALSE, panic |-> FALSE,
                   node |-> IF plain
                            THEN [n EXCEPT !.Title = p.title, !.Plain = TRUE]
                            ELSE [n EXCEPT !.Title = p.title, !.Plain = FALSE,
                                           !.content = markdown(p.body),
                                           !.Text = ToLower(textRender(p.body))]]

\* Node.Content: [panic, node, content]; outside production mode the file is
\* read again and a read error is only logged
Content(n, fsys, prod) ==
    IF prod THEN [panic |-> FALSE, node |-> n, content |-> n.content]
    ELSE LET r == ReloadContent(n, fsys)
         IN  [panic |-> r.panic, node |-> r.node, content |-> r.node.content]

(***************************************************************************)
(* Settings, the index file TOC.ini and the documents on disk.             *)
(***************************************************************************)
\* setting.Docs.Langs: the first one is the default language
Langs == <<"en", "zh">>

LangSet == {Langs[k] : k \in 1..Len(Langs)}

DirD == <<"d">>
DirE == <<"e">>
DirG == <<"g">>
FileI == <<"i">>
FileF == <<"f">>
PageP == <<"p">>

\* TOC.ini: readable ("ok"), absent or unparsable; the directories of the default section in order, each
\* with the values of its own section, and the values of section "pages"
CfgTwo ==
    [state |-> "ok",
     dirs  |-> <<[name |-> DirD, files |-> <<FileI, FileF>>],
                 [name |-> DirG, files |-> <<>>],
                 [name |-> DirE, files |-> <<FileI, FileF>>]>>,
     pages |-> <<PageP>>]

CfgOne ==
    [state |-> "ok",
     dirs  |-> <<[name |-> DirD, files |-> <<FileI, FileF>>]>>,
     pages |-> <<>>]

CfgNone ==
    [state |-> "ok",
     dirs  |-> <<[name |-> DirG, files |-> <<>>]>>,
     pages |-> <<>>]

NoToc == [state |-> "missing", dirs |-> <<>>, pages |-> <<>>]
BadToc == [state |-> "malformed", dirs |-> <<>>, pages |-> <<>>]

\* path.Join(localRoot, lang, dirName, fileName) + ".md"
FilePath(lang, dirName, fileName) == <<lang, dirName, fileName>>

AllFiles ==
    {FilePath(l, dn, fn) : l \in LangSet, dn \in {DirD, DirE}, fn \in {FileI, FileF}}
        \cup {FilePath(l, <<>>, PageP) : l \in LangSet}

\* documents
DocTitled ==
    Marker \o <<"\n", "n", "a", "m", "e", ":", " ", "T", "\n">> \o Marker
           \o <<"*", "X", "y", "*">>
DocBody == Marker \o Marker \o <<"a", "X">>
DocFrontOnly == Marker \o Marker
DocEmpty == <<>>
DocBare == <<"X", "y">>
DocOpen == Marker \o <<"X", "y">>

(***************************************************************************)
(* Toc and its construction: initToc, and initDocs of the same package.    *)
(***************************************************************************)
dirNode(lang, d) ==
    NewNode(d.name, FilePath(lang, d.name, d.files[1]),
            [k \in 1..(Len(d.files) - 1) |->
                NewNode(d.files[k + 1], FilePath(lang, d.name, d.files[k + 1]), <<>>)])

\* the body of initToc's loop over setting.Docs.Langs: the Toc of one language
newToc(cfg, lang) ==
    LET used == SelectSeq(cfg.dirs, LAMBDA d : Len(d.files) # 0)
    IN  [Lang  |-> lang,
         Nodes |-> [k \in 1..Len(used) |-> dirNode(lang, used[k])],
         Pages |-> [k \in 1..Len(cfg.pages) |->
                      NewNode(cfg.pages[k], FilePath(lang, <<>>, cfg.pages[k]), <<>>)]]

\* initToc on a readable index: the whole map
initToc(cfg) == [l \in LangSet |-> newToc(cfg, l)]

loadNode(n, fsys) == ReloadContent(n, fsys).node

loadDir(n, fsys) ==
    [loadNode(n, fsys) EXCEPT
        !.Nodes = [k \in 1..Len(n.Nodes) |-> loadNode(n.Nodes[k], fsys)]]

tocPanics(t, fsys) ==
    \/ \E k \in 1..Len(t.Nodes) :
          \/ ReloadContent(t.Nodes[k], fsys).panic
          \/ \E j \in 1..Len(t.Nodes[k].Nodes) :
                ReloadContent(t.Nodes[k].Nodes[j], fsys).panic
    \/ \E k \in 1..Len(t.Pages) : ReloadContent(t.Pages[k], fsys).panic

\* initDocs: the content of every node is resolved once at load time; a
\* document that cannot be read is left unresolved
initDocs(tocs, fsys) ==
    [panic |-> \E l \in DOMAIN tocs : tocPanics(tocs[l], fsys),
     tocs  |-> [l \in DOMAIN tocs |->
                  [tocs[l] EXCEPT
                     !.Nodes = [k \in 1..Len(tocs[l].Nodes) |->
                                  loadDir(tocs[l].Nodes[k], fsys)],
                     !.Pages = [k \in 1..Len(tocs[l].Pages) |->
                                  loadNode(tocs[l].Pages[k], fsys)]]]]

(***************************************************************************)
(* Toc.GetDoc, one activation: what the body does before any Content().    *)
(***************************************************************************)
NotFound == [title |-> <<>>, content |-> <<>>]

\* the node the loops of GetDoc stop at: <<i, j>> (j = 0 for a directory
\* node), or <<0, 0>>
dirIndex(t, nm) ==
    LET hits == {i \in 1..Len(t.Nodes) : t.Nodes[i].Name = nm}
    IN  IF hits = {} THEN 0 ELSE CHOOSE i \in hits : \A k \in hits : i <= k

fileIndex(t, dn, fnm) ==
    LET all  == UNION {{<<i, j>> : j \in 1..Len(t.Nodes[i].Nodes)} :
                          i \in 1..Len(t.Nodes)}
        hits == {p \in all : /\ t.Nodes[p[1]].Name = dn
                             /\ t.Nodes[p[1]].Nodes[p[2]].Name = fnm}
    IN  IF hits = {} THEN <<0, 0>>
        ELSE CHOOSE p \in hits :
                \A q \in hits : p[1] < q[1] \/ (p[1] = q[1] /\ p[2] <= q[2])

\* the empty name: the first node whatever available as default
lookupFirst(t) ==
    IF Len(t.Nodes) = 0 \/ t.Nodes[1].Plain
    THEN [kind |-> "none", i |-> 0, j |-> 0]
    ELSE [kind |-> "node", i |-> 1, j |-> 0]

\* [kind, i, j]: "none" returns ("", nil, false); "node" returns the node's
\* Title and Content(); "fallback" calls GetDoc of the default language
lookup(t, rawName, fsys) ==
    LET name  == TrimPrefixSlash(rawName)
        infos == Split(name, "/")
    IN  IF Len(name) = 0
        THEN lookupFirst(t)
        ELSE IF Len(infos) = 1
        THEN IF dirIndex(t, infos[1]) = 0
             THEN [kind |-> "none", i |-> 0, j |-> 0]
             ELSE [kind |-> "node", i |-> dirIndex(t, infos[1]), j |-> 0]
        ELSE LET p == fileIndex(t, infos[1], infos[2])
             IN  IF p = <<0, 0>>
                 THEN [kind |-> "none", i |-> 0, j |-> 0]
                 ELSE IF fsys[t.Nodes[p[1]].Nodes[p[2]].FileName] # Missing
                 THEN [kind |-> "node", i |-> p[1], j |-> p[2]]
                 ELSE [kind |-> "fallback", i |-> p[1], j |-> p[2]]

nodeAt(t, i, j) == IF j = 0 THEN t.Nodes[i] ELSE t.Nodes[i].Nodes[j]

setNodeAt(t, i, j, n) ==
    IF j = 0 THEN [t EXCEPT !.Nodes[i] = n]
    ELSE [t EXCEPT !.Nodes[i].Nodes[j] = n]

(***************************************************************************)
(* Toc.Search                                                              *)
(***************************************************************************)
SnippetBefore == 20
SnippetAfter == 230

\* a variant of adjustRange with the two margins exchanged
adjustRangeSwapped(start, end, length) ==
    LET s == IF start - SnippetAfter < 0 THEN 0 ELSE start - SnippetAfter
        e == IF end + SnippetBefore > length THEN length ELSE end + SnippetBefore
    IN  <<s, e>>

adjustRange(start, end, length) ==
    LET s == IF start - SnippetBefore < 0 THEN 0 ELSE start - SnippetBefore
        e == IF end + SnippetAfter > length THEN length ELSE end + SnippetAfter
    IN  <<s, e>>

\* the SearchResult of node n under path, or no result
searchNode(n, path, q) ==
    LET idx == Index(n.Text, q)
        r   == adjustRange(idx, idx + Len(q), Len(n.Text))
    IN  IF idx > -1
        THEN <<[Title |-> n.Title, Path |-> path,
                Match |-> Slice(n.Text, r[1], r[2])]>>
        ELSE <<>>

RECURSIVE searchDirs(_, _, _)
searchDirs(nodes, k, q) ==
    IF k > Len(nodes) THEN <<>>
    ELSE searchNode(nodes[k], nodes[k].Name, q) \o searchDirs(nodes, k + 1, q)

RECURSIVE searchFiles(_, _, _, _)
searchFiles(nodes, k, j, q) ==
    IF k > Len(nodes) THEN <<>>
    ELSE IF j > Len(nodes[k].Nodes) THEN searchFiles(nodes, k + 1, 1, q)
    ELSE searchNode(nodes[k].Nodes[j],
                    PathJoin(nodes[k].Name, nodes[k].Nodes[j].Name), q)
            \o searchFiles(nodes, k, j + 1, q)

\* a variant of Search with a single pass: each directory is followed by its
\* own files
RECURSIVE searchOnePass(_, _, _)
searchOnePass(nodes, k, q) ==
    IF k > Len(nodes) THEN <<>>
    ELSE searchNode(nodes[k], nodes[k].Name, q)
            \o searchFiles(<<nodes[k]>>, 1, 1, q)
            \o searchOnePass(nodes, k + 1, q)

SearchInterleaved(t, rawQ) ==
    IF Len(rawQ) = 0 THEN <<>>
    ELSE searchOnePass(t.Nodes, 1, ToLower(rawQ))

Search(t, rawQ) ==
    IF Len(rawQ) = 0 THEN <<>>
    ELSE LET q == ToLower(rawQ)
         IN  searchDirs(t.Nodes, 1, q) \o searchFiles(t.Nodes, 1, 1, q)

(***************************************************************************)
(* State.                                                                  *)
(*   ProdMode, docsType   setting.ProdMode, setting.Docs.Type              *)
(*   rootIsDir            the local root is a directory                    *)
(*   tocIni               TOC.ini: NoToc, BadToc or a parsed index         *)
(*   disk                 the document of every file, or Missing           *)
(*   tocLocker            the write lock is held                           *)
(*   heap, Tocs           the maps made by initToc, by address; Tocs is    *)
(*                        the address of the installed one, 0 for nil      *)
(*   rl                   the activation of ReloadDocs                     *)
(*   rd                   a request calling GetDoc                         *)
(*   sr                   the last Search and its result                   *)
(***************************************************************************)
VARIABLES ProdMode, docsType, rootIsDir, tocIni, disk, tocLocker, heap, Tocs,
          rl, rd, sr

vars == <<ProdMode, docsType, rootIsDir, tocIni, disk, tocLocker, heap, Tocs,
          rl, rd, sr>>

\* addresses of maps: the installed one, the one being built, one a request holds
MaxRegs == 3

\* depth of nested GetDoc activations the goroutine stack holds
MaxStack == 3

RegIds == 1..MaxRegs

NoReg == [x \in {"free"} |-> "free"]

NoErr == "nil"

RlIdle == [pc |-> "idle", tocs |-> 0, cfg |-> NoToc, lang |-> 0,
           err |-> NoErr, saved |-> 0, first |-> FALSE]

RdIdle == [pc |-> "idle", reg |-> 0, lang |-> "", name |-> <<>>, origin |-> "",
           depth |-> 0, result |-> [title |-> <<>>, content |-> <<>>,
                                    isFallback |-> FALSE]]

SrNone == [lang |-> "", q |-> <<>>, results |-> <<>>]

\* maps nothing refers to any more are collected
Gc(h, tocsPtr, rlRec, rdRec) ==
    [id \in RegIds |->
        IF id \in {tocsPtr, rlRec.tocs, rdRec.reg} THEN h[id] ELSE NoReg]

FreeIds == {id \in RegIds : heap[id] = NoReg}

\* a fatal error ended the process: log.Fatal of NewContext, or the stack
\* overflow of a goroutine
Dead == rl.pc = "exited" \/ rd.pc = "overflow"

(***************************************************************************)
(* Environment: the index, the documents and the root change on disk.      *)
(***************************************************************************)
WriteToc(v) ==
    /\ tocIni # v
    /\ tocIni' = v
    /\ UNCHANGED <<ProdMode, docsType, rootIsDir, disk, tocLocker, heap, Tocs,
                   rl, rd, sr>>

WriteFile(f, d) ==
    /\ disk[f] # d
    /\ disk' = [disk EXCEPT ![f] = d]
    /\ UNCHANGED <<ProdMode, docsType, rootIsDir, tocIni, tocLocker, heap, Tocs,
                   rl, rd, sr>>

RemoveRoot ==
    /\ rootIsDir
    /\ rootIsDir' = FALSE
    /\ UNCHANGED <<ProdMode, docsType, tocIni, disk, tocLocker, heap, Tocs,
                   rl, rd, sr>>

(***************************************************************************)
(* ReloadDocs, statement by statement.                                     *)
(***************************************************************************)
\* a variant of reloadFail for a ReloadDocs that assigns the nil map of a failed
\* initToc
reloadFailClobbers(e) ==
    /\ rl' = [rl EXCEPT !.pc = "returned", !.err = e]
    /\ Tocs' = 0
    /\ UNCHANGED heap

\* the return of an error: nothing was assigned
reloadFail(e) ==
    /\ rl' = [rl EXCEPT !.pc = "returned", !.err = e]
    /\ UNCHANGED <<heap, Tocs>>

\* tocLocker.Lock()
ReloadLock ==
    /\ ~Dead
    /\ rl.pc = "idle"
    /\ ~tocLocker
    /\ tocLocker' = TRUE
    /\ rl' = [RlIdle EXCEPT !.pc = "sync", !.saved = Tocs, !.first = (Tocs = 0)]
    /\ UNCHANGED <<ProdMode, docsType, rootIsDir, tocIni, disk, heap, Tocs, rd, sr>>

\* git pull in the cache directory, or git clone into it
ReloadSync(ok) ==
    /\ ~Dead
    /\ rl.pc = "sync"
    /\ IF docsType = "remote"
       THEN IF ok
            THEN /\ rootIsDir' = TRUE
                 /\ rl' = [rl EXCEPT !.pc = "checkroot"]
                 /\ UNCHANGED <<heap, Tocs>>
            ELSE /\ reloadFail("sync")
                 /\ UNCHANGED rootIsDir
       ELSE /\ ok
            /\ rl' = [rl EXCEPT !.pc = "checkroot"]
            /\ UNCHANGED <<rootIsDir, heap, Tocs>>
    /\ UNCHANGED <<ProdMode, docsType, tocIni, disk, tocLocker, rd, sr>>

\* com.IsDir(localRoot)
ReloadCheckRoot ==
    /\ ~Dead
    /\ rl.pc = "checkroot"
    /\ IF rootIsDir
       THEN /\ rl' = [rl EXCEPT !.pc = "inittoc"]
            /\ UNCHANGED <<heap, Tocs>>
       ELSE reloadFail("source missing")
    /\ UNCHANGED <<ProdMode, docsType, rootIsDir, tocIni, disk, tocLocker, rd, sr>>

\* a variant of ReloadInitToc that builds in place: the new map is assigned to
\* Tocs as soon as it is made
ReloadInitTocInPlace ==
    /\ ~Dead
    /\ rl.pc = "inittoc"
    /\ IF tocIni.state # "ok"
       THEN reloadFail("index")
       ELSE \E id \in FreeIds :
              /\ \A o \in FreeIds : id <= o
              /\ heap' = [heap EXCEPT ![id] = <<>>]
              /\ rl' = [rl EXCEPT !.pc = "lang", !.tocs = id, !.cfg = tocIni,
                                  !.lang = 1]
              /\ Tocs' = id
    /\ UNCHANGED <<ProdMode, docsType, rootIsDir, tocIni, disk, tocLocker, rd, sr>>

\* initToc up to tocs := make(map[string]*Toc)
ReloadInitToc ==
    /\ ~Dead
    /\ rl.pc = "inittoc"
    /\ IF tocIni.state # "ok"
       THEN reloadFail("index")
       ELSE \E id \in FreeIds :
              /\ \A o \in FreeIds : id <= o
              /\ heap' = [heap EXCEPT ![id] = <<>>]
              /\ rl' = [rl EXCEPT !.pc = "lang", !.tocs = id, !.cfg = tocIni,
                                  !.lang = 1]
              /\ UNCHANGED Tocs
    /\ UNCHANGED <<ProdMode, docsType, rootIsDir, tocIni, disk, tocLocker, rd, sr>>

\* one turn of initToc's loop over the languages: tocs[lang] = toc
ReloadInitTocLang ==
    /\ ~Dead
    /\ rl.pc = "lang"
    /\ LET l == Langs[rl.lang]
           m == heap[rl.tocs]
       IN  heap' = [heap EXCEPT ![rl.tocs] =
                      [x \in DOMAIN m \cup {l} |->
                          IF x = l THEN newToc(rl.cfg, l) ELSE m[x]]]
    /\ rl' = IF rl.lang = Len(Langs)
             THEN [rl EXCEPT !.pc = "initdocs", !.lang = 0]
             ELSE [rl EXCEPT !.lang = rl.lang + 1]
    /\ UNCHANGED <<ProdMode, docsType, rootIsDir, tocIni, disk, tocLocker, Tocs,
                   rd, sr>>

\* initDocs(tocs, localRoot); a panic unwinds ReloadDocs
ReloadInitDocs ==
    /\ ~Dead
    /\ rl.pc = "initdocs"
    /\ LET r == initDocs(heap[rl.tocs], disk)
       IN  IF r.panic
           THEN /\ rl' = [rl EXCEPT !.pc = "panicked", !.tocs = 0]
                /\ heap' = Gc(heap, Tocs, rl', rd)
           ELSE /\ rl' = [rl EXCEPT !.pc = "swap"]
                /\ heap' = [heap EXCEPT ![rl.tocs] = r.tocs]
    /\ UNCHANGED <<ProdMode, docsType, rootIsDir, tocIni, disk, tocLocker, Tocs,
                   rd, sr>>

\* Tocs = tocs; return nil
ReloadSwap ==
    /\ ~Dead
    /\ rl.pc = "swap"
    /\ Tocs' = rl.tocs
    /\ rl' = [rl EXCEPT !.pc = "returned", !.tocs = 0]
    /\ heap' = Gc(heap, Tocs', rl', rd)
    /\ UNCHANGED <<ProdMode, docsType, rootIsDir, tocIni, disk, tocLocker, rd, sr>>

\* the deferred tocLocker.Unlock(), then the caller: NewContext ends the
\* process when the first load fails
ReloadUnlock ==
    /\ ~Dead
    /\ rl.pc \in {"returned", "panicked"}
    /\ tocLocker' = FALSE
    /\ rl' = IF rl.first /\ (rl.err # NoErr \/ rl.pc = "panicked")
             THEN [rl EXCEPT !.pc = "exited"]
             ELSE RlIdle
    /\ UNCHANGED <<ProdMode, docsType, rootIsDir, tocIni, disk, heap, Tocs, rd, sr>>

(***************************************************************************)
(* A request: the caller takes Tocs[lang] and calls GetDoc on it.  One     *)
(* step is one activation of GetDoc; the fallback reads Tocs again.        *)
(***************************************************************************)
ReaderStart(lang, name) ==
    /\ ~Dead
    /\ rd.pc = "idle"
    /\ Tocs # 0
    /\ rd' = [RdIdle EXCEPT !.pc = "call", !.reg = Tocs, !.lang = lang,
                            !.origin = lang, !.name = name]
    /\ UNCHANGED <<ProdMode, docsType, rootIsDir, tocIni, disk, tocLocker, heap,
                   Tocs, rl, sr>>

rdToc == heap[rd.reg][rd.lang]

rdLookup == lookup(rdToc, rd.name, disk)

\* an activation below the first one hands its result up with the flag set
finish(title, content) ==
    [rd EXCEPT !.pc = "done",
               !.result = [title |-> title, content |-> content,
                           isFallback |-> rd.depth > 0]]

\* return "", nil, false
GetDocNotFound ==
    /\ ~Dead
    /\ rd.pc = "call"
    /\ rdLookup.kind = "none"
    /\ rd' = finish(NotFound.title, NotFound.content)
    /\ UNCHANGED <<ProdMode, docsType, rootIsDir, tocIni, disk, tocLocker, heap,
                   Tocs, rl, sr>>

\* return node.Title, node.Content(), false: Go leaves open whether Title is
\* read before or after the call of Content()
GetDocNode ==
    /\ ~Dead
    /\ rd.pc = "call"
    /\ rdLookup.kind = "node"
    /\ LET n == nodeAt(rdToc, rdLookup.i, rdLookup.j)
           c == Content(n, disk, ProdMode)
       IN  /\ ~c.panic
           /\ \E title \in {n.Title, c.node.Title} :
                rd' = finish(title, c.content)
           /\ heap' = [heap EXCEPT ![rd.reg][rd.lang] =
                          setNodeAt(rdToc, rdLookup.i, rdLookup.j, c.node)]
    /\ UNCHANGED <<ProdMode, docsType, rootIsDir, tocIni, disk, tocLocker, Tocs,
                   rl, sr>>

\* Content() panics inside parseNodeName; the request is lost
GetDocPanic ==
    /\ ~Dead
    /\ rd.pc = "call"
    /\ rdLookup.kind = "node"
    /\ Content(nodeAt(rdToc, rdLookup.i, rdLookup.j), disk, ProdMode).panic
    /\ rd' = [rd EXCEPT !.pc = "panicked"]
    /\ UNCHANGED <<ProdMode, docsType, rootIsDir, tocIni, disk, tocLocker, heap,
                   Tocs, rl, sr>>

\* Tocs[setting.Docs.Langs[0]].GetDoc(name): one more activation
GetDocFallback ==
    /\ ~Dead
    /\ rd.pc = "call"
    /\ rdLookup.kind = "fallback"
    /\ rd.depth + 2 <= MaxStack
    /\ rd' = [rd EXCEPT !.reg = Tocs, !.lang = Langs[1], !.depth = rd.depth + 1]
    /\ heap' = Gc(heap, Tocs, rl, rd')
    /\ UNCHANGED <<ProdMode, docsType, rootIsDir, tocIni, disk, tocLocker, Tocs,
                   rl, sr>>

\* the activation the stack has no room for: fatal error, stack overflow
GetDocOverflow ==
    /\ ~Dead
    /\ rd.pc = "call"
    /\ rdLookup.kind = "fallback"
    /\ rd.depth + 2 > MaxStack
    /\ rd' = [rd EXCEPT !.pc = "overflow"]
    /\ UNCHANGED <<ProdMode, docsType, rootIsDir, tocIni, disk, tocLocker, heap,
                   Tocs, rl, sr>>

\* the caller is done with the result
ReaderReturn ==
    /\ ~Dead
    /\ rd.pc \in {"done", "panicked"}
    /\ rd' = RdIdle
    /\ heap' = Gc(heap, Tocs, rl, rd')
    /\ UNCHANGED <<ProdMode, docsType, rootIsDir, tocIni, disk, tocLocker, Tocs,
                   rl, sr>>

\* Tocs[lang].Search(q)
DoSearch(lang, q) ==
    /\ ~Dead
    /\ Tocs # 0
    /\ sr' = [lang |-> lang, q |-> q, results |-> Search(heap[Tocs][lang], q)]
    /\ UNCHANGED <<ProdMode, docsType, rootIsDir, tocIni, disk, tocLocker, heap,
                   Tocs, rl, rd>>

(***************************************************************************)
(* Inputs.                                                                 *)
(***************************************************************************)
PathEmpty == <<>>
PathSlash == <<"/">>
PathDF == <<"d", "/", "f">>
PathZ == <<"z">>

Paths ==
    {PathEmpty, PathSlash, <<"d">>, <<"/", "d">>, <<"e">>, PathZ, PathDF,
     <<"/", "d", "/", "f">>, <<"e", "/", "f">>, <<"d", "/", "z">>,
     <<"z", "/", "f">>, <<"d", "/", "f", "/", "z">>, <<"d", "/">>}

SeqsUpTo(S, n) == UNION {[1..k -> S] : k \in 0..n}

\* no map made yet: the state NewContext starts from
Boot(prod, type, isDir, toc, fsys) ==
    /\ ProdMode = prod
    /\ docsType = type
    /\ rootIsDir = isDir
    /\ tocIni = toc
    /\ disk = fsys
    /\ tocLocker = FALSE
    /\ heap = [id \in RegIds |-> NoReg]
    /\ Tocs = 0
    /\ rl = RlIdle
    /\ rd = RdIdle
    /\ sr = SrNone

\* NewContext has returned: the map of cfg and fsys is installed
Serving(prod, cfg, fsys) ==
    /\ ProdMode = prod
    /\ docsType = "local"
    /\ rootIsDir = TRUE
    /\ tocIni = cfg
    /\ disk = fsys
    /\ tocLocker = FALSE
    /\ heap = [id \in RegIds |->
                 IF id = 1 THEN initDocs(initToc(cfg), fsys).tocs ELSE NoReg]
    /\ Tocs = 1
    /\ rl = RlIdle
    /\ rd = RdIdle
    /\ sr = SrNone

(***************************************************************************)
(* The whole program: reloads, requests and a changing disk.               *)
(***************************************************************************)
\* the one document that changes on disk: the default language's d/f; the
\* translation zh/d/f does not exist
EditedFile == FilePath("en", DirD, FileF)

Init ==
    \E prod \in BOOLEAN, type \in {"local", "remote"}, isDir \in BOOLEAN,
       toc \in {NoToc, CfgOne} :
        Boot(prod, type, isDir, toc,
             [f \in AllFiles |->
                IF f[1] = "en" /\ f[2] = DirD THEN DocTitled
                ELSE IF f = FilePath("zh", DirD, FileI) THEN DocBody
                ELSE Missing])

Next ==
    \/ \E v \in {BadToc, CfgOne} : WriteToc(v)
    \/ \E d \in {Missing, DocTitled, DocOpen} : WriteFile(EditedFile, d)
    \/ RemoveRoot
    \/ ReloadLock
    \/ \E ok \in BOOLEAN : ReloadSync(ok)
    \/ ReloadCheckRoot
    \/ ReloadInitToc
    \/ ReloadInitTocLang
    \/ ReloadInitDocs
    \/ ReloadSwap
    \/ ReloadUnlock
    \/ \E l \in LangSet, nm \in {PathZ, PathDF} : ReaderStart(l, nm)
    \/ GetDocNotFound
    \/ GetDocNode
    \/ GetDocPanic
    \/ GetDocFallback
    \/ GetDocOverflow
    \/ ReaderReturn

Spec == Init /\ [][Next]_vars

(***************************************************************************)
(* GetDoc on an installed map: requests in both modes over documents that  *)
(* are present, empty, malformed or missing, edited between requests.      *)
(***************************************************************************)
GetDocDisks ==
    {[f \in AllFiles |->
        CASE f = FilePath("en", DirD, FileI) -> a
          [] f = FilePath("en", DirD, FileF) -> b
          [] f = FilePath("zh", DirD, FileI) -> c
          [] f = FilePath("zh", DirD, FileF) -> d
          [] f = FilePath("zh", DirE, FileF) -> Missing
          [] OTHER -> DocBody] :
        a \in {DocTitled, DocFrontOnly, Missing}, b \in {DocTitled, Missing},
        c \in {DocBody, DocFrontOnly}, d \in {DocBody, Missing}}

InitGetDoc ==
    \E prod \in BOOLEAN, cfg \in {CfgTwo, CfgNone}, fsys \in GetDocDisks :
        Serving(prod, cfg, fsys)

NextGetDoc ==
    \/ /\ rd.pc = "idle"
       /\ \E f \in {FilePath("en", DirD, FileI), FilePath("en", DirD, FileF)},
             d \in {Missing, DocEmpty, DocTitled, DocOpen} : WriteFile(f, d)
    \/ \E l \in LangSet, nm \in Paths : ReaderStart(l, nm)
    \/ GetDocNotFound
    \/ GetDocNode
    \/ GetDocPanic
    \/ GetDocFallback
    \/ GetDocOverflow
    \/ ReaderReturn

SpecGetDoc == InitGetDoc /\ [][NextGetDoc]_vars

(***************************************************************************)
(* Search on an installed map over texts short and long enough for both    *)
(* ends of the snippet window to be clamped or not.                        *)
(***************************************************************************)
PadBefore == 25
PadAfter == 235

LongDoc(pre, post) ==
    Marker \o Marker \o [k \in 1..pre |-> "a"] \o <<"X", "y">>
           \o [k \in 1..post |-> "a"]

SearchDocs ==
    {Missing, DocEmpty, DocTitled, LongDoc(0, 0), LongDoc(PadBefore, 0),
     LongDoc(0, PadAfter), LongDoc(PadBefore, PadAfter)}

SearchDisks ==
    {[f \in AllFiles |->
        CASE f = FilePath("en", DirD, FileI) -> a
          [] f = FilePath("en", DirD, FileF) -> b
          [] f = FilePath("en", DirE, FileI) -> c
          [] f = FilePath("en", DirE, FileF) -> d
          [] OTHER -> DocTitled] :
        a \in SearchDocs, b \in SearchDocs,
        c \in {Missing, DocTitled, LongDoc(PadBefore, PadAfter)},
        d \in {DocEmpty, LongDoc(0, 0)}}

Queries ==
    {<<>>, <<"X", "Y">>, <<"x", "y">>, <<"a">>, <<"y", "a">>, <<"z">>}

InitSearch == \E fsys \in SearchDisks : Serving(TRUE, CfgTwo, fsys)

NextSearch == \E l \in LangSet, q \in Queries : DoSearch(l, q)

SpecSearch == InitSearch /\ [][NextSearch]_vars

(***************************************************************************)
(* Content resolution: the document of the first directory is rewritten    *)
(* with every short document of dashes, letters and blanks, and some with  *)
(* front matter, and resolved by reloads and, outside production mode, by  *)
(* the requests for it.                                                    *)
(***************************************************************************)
MaxDocLen == 4

DocNameOpen == Marker \o <<"\n", "n", "a", "m", "e", ":", " ", "T", "\n">>

ParseDocs ==
    SeqsUpTo({"-", "a", " "}, MaxDocLen)
        \cup {DocTitled, DocBody, DocFrontOnly, DocBare, DocOpen, DocNameOpen,
              <<" ">> \o DocBare \o <<"\n">>}

ParsedFile == FilePath("en", DirD, FileI)

InitParse ==
    \E prod \in BOOLEAN :
        Serving(prod, CfgOne,
                [f \in AllFiles |-> IF f[2] = DirD THEN DocTitled ELSE Missing])

NextParse ==
    \/ /\ rd.pc = "idle"
       /\ rl.pc = "idle"
       /\ \E d \in ParseDocs : WriteFile(ParsedFile, d)
    \/ ReloadLock
    \/ \E ok \in BOOLEAN : ReloadSync(ok)
    \/ ReloadCheckRoot
    \/ ReloadInitToc
    \/ ReloadInitTocLang
    \/ ReloadInitDocs
    \/ ReloadSwap
    \/ ReloadUnlock
    \/ ReaderStart("en", DirD)
    \/ GetDocNode
    \/ GetDocPanic
    \/ ReaderReturn

SpecParse == InitParse /\ [][NextParse]_vars

(***************************************************************************)
(* Properties.                                                             *)
(***************************************************************************)
Max(a, b) == IF a >= b THEN a ELSE b
Min(a, b) == IF a <= b THEN a ELSE b

\* every directory and file node of a Toc, as <<i, j>> (j = 0: directory i)
NodeKeys(t) ==
    {<<i, 0>> : i \in 1..Len(t.Nodes)}
        \cup UNION {{<<i, j>> : j \in 1..Len(t.Nodes[i].Nodes)} :
                       i \in 1..Len(t.Nodes)}

\* C1: a ReloadDocs that returns an error (sync, source missing, index) leaves
\* Tocs the map that was installed when it was called, contents included, so a
\* GetDoc or Search after it works on what it worked on before.
C1_FailedReloadKeepsRegistry ==
    [][(rl.pc # "returned" /\ rl'.pc = "returned" /\ rl'.err # NoErr) =>
          /\ Tocs' = rl.saved
          /\ Tocs' = Tocs
          /\ Tocs # 0 => heap'[Tocs'] = heap[Tocs]
          /\ Tocs # 0 => \A l \in LangSet, q \in Queries :
                            Search(heap'[Tocs'][l], q) = Search(heap[Tocs][l], q)
      ]_vars

C1_Witness ==
    /\ rl.pc = "returned"
    /\ rl.err # NoErr
    /\ Tocs # 0
    /\ rd.pc = "call"

\* ReloadDocs is inside initToc's loop or initDocs
Building == rl.pc \in {"lang", "initdocs"}

SeenComplete(id) ==
    /\ heap[id] # NoReg
    /\ DOMAIN heap[id] = LangSet
    /\ ~(Building /\ id = rl.tocs)

\* C2: whatever map a request dereferences, through Tocs or through the Toc it
\* holds, has a Toc for every configured language and is not the map a running
\* ReloadDocs is still building (initToc's loop, initDocs).
C2_ReadersSeeCompleteRegistry ==
    /\ Tocs # 0 => SeenComplete(Tocs)
    /\ rd.reg # 0 => SeenComplete(rd.reg)

C2_Witness ==
    /\ Building
    /\ Tocs # 0
    /\ rd.pc = "call"
    /\ rd.depth = 1
    /\ DOMAIN heap[rl.tocs] # LangSet

segs(name) == Split(TrimPrefixSlash(name), "/")

childrenNamed(t, dn, fnm) ==
    {p \in NodeKeys(t) : /\ p[2] # 0
                         /\ t.Nodes[p[1]].Name = dn
                         /\ t.Nodes[p[1]].Nodes[p[2]].Name = fnm}

TwoSegMissing(t, name) ==
    /\ Len(segs(name)) = 2
    /\ \E p \in childrenNamed(t, segs(name)[1], segs(name)[2]) :
          disk[t.Nodes[p[1]].Nodes[p[2]].FileName] = Missing

\* C3: a two-segment path dir/file whose file node exists in the language's
\* tree with its document missing on disk makes GetDoc return what the default
\* language's tree gives for the path, with isFallback = true; the outcomes for
\* the empty path, a one-segment path, a file found with its document, and a
\* directory or file not found have isFallback = false.
C3_FallbackToDefaultLanguage ==
    [][(rd.pc = "call" /\ rd'.pc \in {"done", "overflow"}) =>
          LET res == rd'.result
              dt  == heap[Tocs][Langs[1]]
              dt2 == heap'[Tocs][Langs[1]]
              ps  == childrenNamed(dt, segs(rd.name)[1], segs(rd.name)[2])
          IN  IF TwoSegMissing(heap[Tocs][rd.origin], rd.name)
              THEN /\ rd'.pc = "done"
                   /\ res.isFallback
                   /\ IF ps = {}
                      THEN res.title = <<>> /\ res.content = <<>>
                      ELSE \E p \in ps :
                             /\ disk[dt.Nodes[p[1]].Nodes[p[2]].FileName] # Missing
                             /\ res.content = dt2.Nodes[p[1]].Nodes[p[2]].content
                             /\ res.title \in {dt.Nodes[p[1]].Nodes[p[2]].Title,
                                               dt2.Nodes[p[1]].Nodes[p[2]].Title}
              ELSE (Len(segs(rd.name)) <= 2 /\ rd'.pc = "done") => ~res.isFallback
      ]_vars

\* C4: GetDoc with the empty path (or "/") returns the title and content of the
\* first directory node when there is one and it is not plain, and not-found
\* when the tree has no directory node or the first one is plain, whatever the
\* later nodes are.
C4_EmptyPathFirstNode ==
    [][(rd.pc = "call" /\ rd.depth = 0 /\ rd.name \in {PathEmpty, PathSlash}
            /\ rd' # rd) =>
          LET t  == heap[rd.reg][rd.lang]
              t2 == heap'[rd.reg][rd.lang]
          IN  /\ rd'.pc = "done"
              /\ ~rd'.result.isFallback
              /\ IF Len(t.Nodes) = 0 \/ t.Nodes[1].Plain
                 THEN rd'.result.title = <<>> /\ rd'.result.content = <<>>
                 ELSE /\ rd'.result.content = t2.Nodes[1].content
                      /\ rd'.result.title \in {t.Nodes[1].Title, t2.Nodes[1].Title}
      ]_vars

Contains(text, q) == \E i \in 0..(Len(text) - Len(q)) : OccursAt(text, q, i)

srToc == heap[Tocs][sr.lang]

srNode(p) == IF p[2] = 0 THEN srToc.Nodes[p[1]] ELSE srToc.Nodes[p[1]].Nodes[p[2]]

srPath(p) ==
    IF p[2] = 0 THEN srToc.Nodes[p[1]].Name
    ELSE srToc.Nodes[p[1]].Name \o <<"/">> \o srToc.Nodes[p[1]].Nodes[p[2]].Name

srHits == {p \in NodeKeys(srToc) : Contains(srNode(p).Text, ToLower(sr.q))}

\* the node a result stands for
srKey(i) == CHOOSE p \in srHits : srPath(p) = sr.results[i].Path

Before(a, b) ==
    \/ a[2] = 0 /\ b[2] # 0
    \/ a[2] = 0 /\ b[2] = 0 /\ a[1] < b[1]
    \/ a[2] # 0 /\ b[2] # 0 /\ (a[1] < b[1] \/ (a[1] = b[1] /\ a[2] < b[2]))

\* C5: for a non-empty query the results of Search are, in this order, one for
\* every directory node whose text contains the lowercased query (path = the
\* directory's name) and then one for every file node whose text contains it
\* (path = directory/file), each group in the order of the tree, and nothing
\* else.
C5_SearchOrderAndCoverage ==
    (sr.lang \in LangSet /\ sr.q # <<>>) =>
        /\ Len(sr.results) = Cardinality(srHits)
        /\ \A i \in 1..Len(sr.results) :
              /\ \E p \in srHits : srPath(p) = sr.results[i].Path
              /\ sr.results[i].Title = srNode(srKey(i)).Title
        /\ \A p \in srHits : \E i \in 1..Len(sr.results) : srKey(i) = p
        /\ \A i, j \in 1..Len(sr.results) : i < j => Before(srKey(i), srKey(j))

C5_Witness ==
    /\ sr.lang \in LangSet
    /\ sr.q # <<>>
    /\ Len(sr.results) = 4
    /\ srKey(2) = <<2, 0>>
    /\ srKey(3) = <<1, 1>>

firstAt(text, q) ==
    CHOOSE i \in 0..(Len(text) - Len(q)) :
        /\ OccursAt(text, q, i)
        /\ \A k \in 0..(i - 1) : ~OccursAt(text, q, k)

\* C6: the snippet of a result is the slice of the node's text from
\* max(0, i - 20) to min(N, i + L + 230), i the offset of the first occurrence of
\* the lowercased query, L its length, N the length of the text; the bounds
\* adjustRange gives are these and satisfy 0 <= start <= i and i + L <= end <= N.
C6_SnippetWindow ==
    (sr.lang \in LangSet /\ sr.q # <<>>) =>
        \A r \in 1..Len(sr.results) :
            \E p \in srHits :
                LET text == srNode(p).Text
                    N    == Len(text)
                    L    == Len(sr.q)
                    i    == firstAt(text, ToLower(sr.q))
                    lo   == Max(0, i - SnippetBefore)
                    hi   == Min(N, i + L + SnippetAfter)
                    b    == adjustRange(i, i + L, N)
                IN  /\ srPath(p) = sr.results[r].Path
                    /\ b = <<lo, hi>>
                    /\ 0 <= b[1] /\ b[1] <= i /\ i + L <= b[2] /\ b[2] <= N
                    /\ sr.results[r].Match = [k \in 1..(hi - lo) |-> text[lo + k]]

\* neither end of the window is clamped
C6_Witness ==
    /\ sr.lang \in LangSet
    /\ \E r \in 1..Len(sr.results) :
          LET text == srNode(srKey(r)).Text
              i    == firstAt(text, ToLower(sr.q))
          IN  /\ i > SnippetBefore
              /\ i + Len(sr.q) + SnippetAfter < Len(text)
              /\ Len(sr.results[r].Match) = SnippetBefore + Len(sr.q) + SnippetAfter

NoOpeningMarker(data) == Len(data) < 3 \/ SubSeq(data, 1, 3) # Marker

OpenOnly(data) ==
    /\ Len(data) >= 3
    /\ SubSeq(data, 1, 3) = Marker
    /\ ~Contains(SubSeq(data, 4, Len(data)), Marker)

parsedData == TrimSpace(disk[ParsedFile])

\* the step resolves the content of the first directory of "en" in map id:
\* initDocs of a reload, or Content() of a request outside production mode
Resolves(id) ==
    \/ rl.pc = "initdocs" /\ rl' # rl /\ id = rl.tocs
    \/ ~ProdMode /\ rd.pc = "call" /\ rd' # rd /\ id = rd.reg

Resolved(id) ==
    /\ rl.pc = "initdocs" => rl'.pc = "swap"
    /\ rd.pc = "call" => rd'.pc = "done"

\* C7: a document that does not begin, once trimmed, with the marker (or is
\* shorter than it) resolves to title = the node's name and body = the whole
\* trimmed document: plain only when that is empty, rendered otherwise.
C7_NoFrontMatterWholeBody ==
    [][\A id \in RegIds :
          (Resolves(id) /\ NoOpeningMarker(parsedData)) =>
              LET n == heap'[id]["en"].Nodes[1]
              IN  /\ Resolved(id)
                  /\ n.Title = n.Name
                  /\ n.Plain <=> (parsedData = <<>>)
                  /\ ~n.Plain => /\ n.content = markdown(parsedData)
                                 /\ n.Text = ToLower(textRender(parsedData))
      ]_vars

\* C8: in every state of every node, Plain implies that the rendered content and
\* the text are empty.
C8_PlainHasNoContent ==
    Tocs # 0 =>
        \A l \in LangSet : \A p \in NodeKeys(heap[Tocs][l]) :
            LET t == heap[Tocs][l]
                n == IF p[2] = 0 THEN t.Nodes[p[1]] ELSE t.Nodes[p[1]].Nodes[p[2]]
            IN  n.Plain => (n.content = <<>> /\ n.Text = <<>>)

\* C9: GetDoc ends for every map, language and path, and calls GetDoc of the
\* default language at most once.
C9_AtMostOneHop == rd.depth <= 1 /\ rd.pc # "overflow"

\* C10: a document that begins with the marker and has no second marker
\* resolves without failing, to title = the node's name and a plain node.
C10_UnclosedFrontMatterIsPlain ==
    [][\A id \in RegIds :
          (Resolves(id) /\ OpenOnly(parsedData)) =>
              LET n == heap'[id]["en"].Nodes[1]
              IN  /\ Resolved(id)
                  /\ n.Title = n.Name
                  /\ n.Plain
      ]_vars

====
